---- MODULE Spec2Model ----
(***************************************************************************)
(* Model of src/mnubo/client.go: the OAuth2 client-credentials token       *)
(* cache, the gzip request/response pipeline and the authenticated call.   *)
(*                                                                         *)
(* Byte buffers are sequences of small integers.  A JSON document is the   *)
(* sequence  '{' , one code per member value ... , '}' ; a gzip stream is  *)
(* the two magic bytes, the data, and a trailer of checksum and length.    *)
(* Time is counted in milliseconds.                                        *)
(***************************************************************************)
EXTENDS Integers, Sequences, FiniteSets, TLC

\* ------------------------------------------------------------------ bounds
MaxClock == 2          \* the clock runs 0..MaxClock
MaxDurationMs == 1     \* scaled stand-in for the largest expires_in (ms) a time.Duration holds
NumProcs == 2          \* goroutines that may call into one client
MaxLen == 3            \* longest buffer handed to the codec on its own

AllProcs == 1..NumProcs

\* --------------------------------------------------------------- constants
GzipID1 == 31          \* first gzip magic byte written by gzip.Writer
GzipID2 == 139         \* second gzip magic byte
LBrace == 123          \* '{'
RBrace == 125          \* '}'
ByteMod == 256
StatusOK == 200               \* http.StatusOK
StatusMultipleChoices == 300  \* http.StatusMultipleChoices
ZeroTime == -1000      \* the zero time.Time (year 1), before every instant of the clock

\* ------------------------------------------------------------------- types
AccessTokenZero ==
    [Value |-> "", ExpiresIn |-> 0, ExpiresAt |-> ZeroTime, Scope |-> ""]

NoErr == [kind |-> "nil", text |-> <<>>]
Errorf(k, b) == [kind |-> k, text |-> b]

NoAuth == [scheme |-> "", cred |-> <<>>]

ClientRequestZero ==
    [authorization |-> NoAuth, method |-> "", path |-> "", contentType |-> "",
     payload |-> <<>>, skipCompression |-> FALSE]

\* ---------------------------------------------------------- AccessToken
\* (mutant) After instead of Before
hasExpiredAfter(tok, t) == tok.ExpiresAt > t

\* hasExpired at clock instant t: at.ExpiresAt.Before(now)
hasExpired(tok, t) == tok.ExpiresAt < t

\* ------------------------------------------------------- gzip codec
RECURSIVE SumBytes(_)
SumBytes(s) == IF s = <<>> THEN 0 ELSE (Head(s) + SumBytes(Tail(s))) % ByteMod

\* (mutant) the writer is never closed: no trailer
doGzipUnclosed(data) == <<GzipID1, GzipID2>> \o data

\* doGzip: header, data, trailer (checksum, size); always flushed and closed
doGzip(data) == <<GzipID1, GzipID2>> \o data \o <<SumBytes(data), Len(data) % ByteMod>>

\* doGunzip: gzip.NewReader fails on a bad header and returns a nil reader,
\* whose deferred Close dereferences nil; a bad trailer fails ReadAll.
doGunzip(data) ==
    IF Len(data) < 2 \/ data[1] # GzipID1 \/ data[2] # GzipID2
    THEN [outcome |-> "panic", out |-> <<>>]
    ELSE IF Len(data) < 4
    THEN [outcome |-> "err", out |-> <<>>]
    ELSE LET inner == SubSeq(data, 3, Len(data) - 2)
         IN  IF data[Len(data) - 1] = SumBytes(inner) /\ data[Len(data)] = Len(inner) % ByteMod
             THEN [outcome |-> "ok", out |-> inner]
             ELSE [outcome |-> "err", out |-> <<>>]

\* ------------------------------------------------------- JSON documents
ValueNames == <<"tok1", "tok2">>     \* access_token strings the server may issue
ScopeNames == <<"ALL", "READ">>      \* scopes a caller may request
Scopes == {ScopeNames[i] : i \in DOMAIN ScopeNames}
ExpiresInVals == (-1)..(MaxDurationMs + 1)   \* expires_in values the endpoint may send

ScopeCode(sc) == CHOOSE i \in DOMAIN ScopeNames : ScopeNames[i] = sc

\* {"access_token":v,"expires_in":e,"scope":s}
TokenDoc(v, e, s) == <<LBrace, v, e, s, RBrace>>
EmptyDoc == <<LBrace, RBrace>>       \* {}
ErrorDoc == <<LBrace, 69, RBrace>>   \* {"error":"invalid_token"}
BadDoc == <<60>>                     \* not JSON

IsJson(body) ==
    /\ Len(body) >= 2
    /\ body[1] = LBrace
    /\ body[Len(body)] = RBrace

\* json.Unmarshal(body, &at): the members the document has overwrite the zero
\* AccessToken, members AccessToken does not have are ignored, and ExpiresAt
\* is not a member of the document.
UnmarshalToken(body) ==
    IF ~IsJson(body) THEN [err |-> Errorf("json", <<>>), at |-> AccessTokenZero]
    ELSE IF Len(body) # 5 THEN [err |-> NoErr, at |-> AccessTokenZero]
    ELSE [err |-> NoErr,
          at |-> [Value |-> ValueNames[body[2]], ExpiresIn |-> body[3],
                  ExpiresAt |-> ZeroTime, Scope |-> ScopeNames[body[4]]]]

\* json.Unmarshal(data, response) into the caller's result
UnmarshalResponse(body) ==
    IF IsJson(body) THEN [err |-> NoErr, data |-> body]
    ELSE [err |-> Errorf("json", <<>>), data |-> <<>>]

\* time.ParseDuration(fmt.Sprintf("%dms", n)): fails, with duration 0, when the
\* value does not fit a time.Duration
ParseDuration(n) ==
    IF n > MaxDurationMs THEN [dur |-> 0, err |-> Errorf("duration", <<>>)]
    ELSE [dur |-> n, err |-> NoErr]

\* ------------------------------------------------------------ the client
VARIABLES
    m,        \* the Mnubo client: ClientId, ClientSecret, ClientToken, Host, AccessToken, Compression
    now,      \* time.Now(), in milliseconds
    procs,    \* the goroutines calling into the client
    pc,       \* pc[p]: where goroutine p stands
    kind,     \* kind[p]: the exported call p is in: "none", "token" (GetAccessToken*), "auth"
    cr,       \* cr[p]: the ClientRequest of p's authenticated call
    scope,    \* scope[p]: the scope argument of GetAccessTokenWithScope
    tok,      \* tok[p]: GetAccessTokenWithScope's locals and return values (at, err, now)
    pend,     \* pend[p]: fields of m.AccessToken = at still to be copied
    sent,     \* sent[p]: the last HTTP request p dispatched
    resp,     \* resp[p]: the HTTP response to sent[p] that client.Do handed to p, when it is recorded
    ret,      \* ret[p]: what p's call returned (err, data)
    ntok,     \* ntok[p]: token-endpoint requests p dispatched in this call
    ngen,     \* ngen[p]: general requests p dispatched in this call
    writer,   \* writer[f]: the goroutine whose acquisition wrote field f of m.AccessToken
    acquired, \* the Value of the token returned by the latest GetAccessToken* call that returned a nil error
    chk       \* chk[p]: the outcome of p's expiry check (found), its instant (at), and whose
              \* acquisition wrote the ExpiresAt it relied on (from) and the Value it sent (val)

vars == <<m, now, procs, pc, kind, cr, scope, tok, pend, sent, resp, ret, ntok, ngen, writer, acquired, chk>>

TokenFields == {"Value", "ExpiresIn", "ExpiresAt", "Scope"}

NewClient(id, secret, host) ==
    [ClientId |-> id, ClientSecret |-> secret, ClientToken |-> "", Host |-> host,
     AccessToken |-> AccessTokenZero,
     Compression |-> [Request |-> FALSE, Response |-> FALSE]]

NewClientWithToken(token, host) ==
    [ClientId |-> "", ClientSecret |-> "", ClientToken |-> token, Host |-> host,
     AccessToken |-> AccessTokenZero,
     Compression |-> [Request |-> FALSE, Response |-> FALSE]]

\* (mutant) the mode test is inverted
isUsingStaticTokenInverted(mm) == mm.ClientToken = ""

isUsingStaticToken(mm) == mm.ClientToken # ""

\* (mutant) the bearer carries no token
BearerAnonymous(v) == [scheme |-> "Bearer", cred |-> <<"">>]

Bearer(v) == [scheme |-> "Bearer", cred |-> <<v>>]
\* "Basic " + base64(id ":" secret)
Basic(id, secret) == [scheme |-> "Basic", cred |-> <<"base64", id, ":", secret>>]

\* "grant_type=client_credentials&scope=%s"
GrantPayload(sc) == <<103, ScopeCode(sc)>>

\* the ClientRequest GetAccessTokenWithScope builds
TokenRequest(mm, sc) ==
    [authorization |-> Basic(mm.ClientId, mm.ClientSecret),
     method |-> "POST", path |-> "/oauth/token",
     contentType |-> "application/x-www-form-urlencoded",
     skipCompression |-> TRUE,
     payload |-> GrantPayload(sc)]

NoRequest ==
    [method |-> "", path |-> "", ContentType |-> "", SDK |-> "",
     Authorization |-> NoAuth, ContentEncoding |-> "", AcceptEncoding |-> "",
     body |-> <<>>]

\* (mutant) the payload is never compressed
RequestBodyPlain(mm, c) == c.payload

\* doRequest, first half: the http.Request that client.Do dispatches
RequestBody(mm, c) ==
    IF mm.Compression.Request /\ ~c.skipCompression THEN doGzip(c.payload) ELSE c.payload

RequestContentEncoding(mm, c) ==
    IF mm.Compression.Request THEN "gzip" ELSE ""

BuildRequest(mm, c) ==
    [method |-> c.method, path |-> c.path,
     ContentType |-> c.contentType, SDK |-> "Go",
     Authorization |-> c.authorization,
     ContentEncoding |-> RequestContentEncoding(mm, c),
     AcceptEncoding |-> IF mm.Compression.Response THEN "gzip" ELSE "",
     body |-> RequestBody(mm, c)]

\* (mutant) 300 counted as a success
IsSuccessUpTo300(status) == status >= StatusOK /\ status <= StatusMultipleChoices

\* http.NewRequest(cr.method, m.Host + cr.path, body) returns (nil, err) when
\* the method is not a token or the URL does not parse (a host such as ":bad"
\* has no scheme)
UnparsableHosts == {":bad"}
InvalidMethods == {"BAD METHOD"}
NewRequestFails(mm, c) == mm.Host \in UnparsableHosts \/ c.method \in InvalidMethods

\* 2xx
IsSuccess(status) == status >= StatusOK /\ status < StatusMultipleChoices

\* (mutant) gunzip only when the client asked for compressed responses
ResponseIsGzipIfAsked(mm, r) == mm.Compression.Response /\ r.encoding = "gzip"

\* whether the response body is run through doGunzip
ResponseIsGzip(mm, r) == r.encoding = "gzip"

\* doRequest, second half: from client.Do's result to (body, err)
HandleResponse(mm, r) ==
    IF r.failed THEN [outcome |-> "return", body |-> <<>>, err |-> Errorf("send", <<>>)]
    ELSE LET z == IF ResponseIsGzip(mm, r) THEN doGunzip(r.body)
                  ELSE [outcome |-> "ok", out |-> r.body]
         IN  IF z.outcome = "panic"
             THEN [outcome |-> "panic", body |-> <<>>, err |-> NoErr]
             ELSE IF z.outcome = "err"
             THEN [outcome |-> "return", body |-> <<>>, err |-> Errorf("gunzip", <<>>)]
             ELSE IF IsSuccess(r.status)
             THEN [outcome |-> "return", body |-> z.out, err |-> NoErr]
             ELSE [outcome |-> "return", body |-> <<>>, err |-> Errorf("status", z.out)]

\* GetAccessTokenWithScope after doRequest returned (body, err) at instant t:
\* the local at, the returned err, and whether m.AccessToken = at is reached
AcquireResult(body, err, t) ==
    IF err # NoErr THEN [at |-> AccessTokenZero, err |-> err, store |-> FALSE]
    ELSE LET u == UnmarshalToken(body)
             d == ParseDuration(u.at.ExpiresIn)
         IN  IF u.err # NoErr
             THEN [at |-> u.at, err |-> u.err, store |-> FALSE]
             ELSE [at |-> [u.at EXCEPT !.ExpiresAt = t + d.dur], err |-> d.err,
                   store |-> TRUE]

\* ------------------------------------------------------------ the server
\* What client.Do may come back with: a transport failure, or a response with
\* a status, a Content-Encoding header and a body.
Statuses == {199, 200, 299, 300, 401}
Encodings == {"", "gzip", "deflate"}

Corrupt(g) == [g EXCEPT ![Len(g) - 1] = (@ + 1) % ByteMod]
BodyForms(doc) == {doc, doGzip(doc), Corrupt(doGzip(doc))}

\* a 2xx response carries a result document, any other an error document;
\* either may be malformed
ServerDocs(isToken, sc, st) ==
    IF ~IsSuccess(st) THEN {ErrorDoc, BadDoc}
    ELSE IF isToken
    THEN {TokenDoc(v, e, sc) : v \in DOMAIN ValueNames, e \in ExpiresInVals}
             \cup {EmptyDoc, BadDoc}
    ELSE {TokenDoc(1, 0, 1), EmptyDoc, BadDoc}

NoResponse == [failed |-> FALSE, status |-> 0, encoding |-> "", body |-> <<>>]
TransportFailure == [failed |-> TRUE, status |-> 0, encoding |-> "", body |-> <<>>]

ResponsesWith(isToken, sc) ==
    {TransportFailure} \cup
    UNION {{[failed |-> FALSE, status |-> st, encoding |-> en, body |-> b] :
               en \in Encodings,
               b \in UNION {BodyForms(d) : d \in ServerDocs(isToken, sc, st)}} :
           st \in Statuses}

\* the token endpoint grants the scope the request asked for
TokenResponses == [sc \in DOMAIN ScopeNames |-> ResponsesWith(TRUE, sc)]
GeneralResponses == ResponsesWith(FALSE, 1)

\* the scope a token request asks for, as the server reads it from the form
ScopeAsked(req) ==
    IF Len(req.body) = 2 /\ req.body[1] = 103 /\ req.body[2] \in DOMAIN ScopeNames
    THEN req.body[2] ELSE 1

ServerResponses(req) ==
    IF req.path = "/oauth/token" THEN TokenResponses[ScopeAsked(req)] ELSE GeneralResponses

\* ---------------------------------------------------------------- Init
NoTok == [at |-> AccessTokenZero, err |-> NoErr, now |-> 0]
NoRet == [err |-> NoErr, data |-> <<>>]
NoWriter == 0
Unread == -1
NoChk == [found |-> "none", at |-> Unread, from |-> Unread, val |-> Unread]

Payloads == {<<>>, EmptyDoc}

Clients ==
    {NewClient("id", "secret", "https://api.test"),
     NewClientWithToken("static", "https://api.test"),
     NewClient("id", "secret", ":bad")}

InitWith(ps, cs, flags) ==
    /\ \E c \in cs, rq \in flags, rs \in flags :
          m = [c EXCEPT !.Compression = [Request |-> rq, Response |-> rs]]
    /\ now = 0
    /\ procs = ps
    /\ pc = [p \in AllProcs |-> "idle"]
    /\ kind = [p \in AllProcs |-> "none"]
    /\ cr = [p \in AllProcs |-> ClientRequestZero]
    /\ scope = [p \in AllProcs |-> ""]
    /\ tok = [p \in AllProcs |-> NoTok]
    /\ pend = [p \in AllProcs |-> {}]
    /\ sent = [p \in AllProcs |-> NoRequest]
    /\ resp = [p \in AllProcs |-> NoResponse]
    /\ ret = [p \in AllProcs |-> NoRet]
    /\ ntok = [p \in AllProcs |-> 0]
    /\ ngen = [p \in AllProcs |-> 0]
    /\ writer = [f \in TokenFields |-> NoWriter]
    /\ acquired = AccessTokenZero.Value
    /\ chk = [p \in AllProcs |-> NoChk]

\* one caller at a time
Init == InitWith({1}, Clients, BOOLEAN)

\* several goroutines share the client
InitConc == InitWith(AllProcs, {NewClient("id", "secret", "https://api.test")}, {FALSE})

\* a panic ends the program
Running == \A q \in AllProcs : pc[q] # "panic"

\* --------------------------------------------------------------- actions
\* the clock advances
Tick ==
    /\ Running
    /\ now < MaxClock
    /\ now' = now + 1
    /\ UNCHANGED <<m, procs, pc, kind, cr, scope, tok, pend, sent, ret, ntok, ngen, writer, acquired, chk, resp>>

\* a caller enters GetAccessToken() (sc = "ALL") or GetAccessTokenWithScope(sc)
CallGetAccessToken(p, sc) ==
    /\ Running
    /\ pc[p] = "idle"
    /\ kind' = [kind EXCEPT ![p] = "token"]
    /\ scope' = [scope EXCEPT ![p] = sc]
    /\ pc' = [pc EXCEPT ![p] = "tok_send"]
    /\ UNCHANGED <<m, now, procs, cr, tok, pend, sent, ret, ntok, ngen, writer, acquired, chk, resp>>

\* a caller enters doRequestWithAuthentication(cr, response)
CallWithAuthentication(p, payload) ==
    /\ Running
    /\ pc[p] = "idle"
    /\ kind' = [kind EXCEPT ![p] = "auth"]
    /\ cr' = [cr EXCEPT ![p] =
                [authorization |-> NoAuth, method |-> "POST", path |-> "/api/v3/objects",
                 contentType |-> "application/json", payload |-> payload,
                 skipCompression |-> FALSE]]
    /\ pc' = [pc EXCEPT ![p] = "check"]
    /\ UNCHANGED <<m, now, procs, scope, tok, pend, sent, ret, ntok, ngen, writer, acquired, chk, resp>>

\* doRequestWithAuthentication, the mode test and the expiry check
CheckToken(p) ==
    /\ Running
    /\ pc[p] = "check"
    /\ IF isUsingStaticToken(m)
       THEN /\ cr' = [cr EXCEPT ![p].authorization = Bearer(m.ClientToken)]
            /\ pc' = [pc EXCEPT ![p] = "send"]
            /\ UNCHANGED <<scope, chk>>
       ELSE IF hasExpired(m.AccessToken, now)
       THEN /\ chk' = [chk EXCEPT ![p] = [found |-> "expired", at |-> now, from |-> writer["ExpiresAt"], val |-> Unread]]
            /\ scope' = [scope EXCEPT ![p] = "ALL"]
            /\ pc' = [pc EXCEPT ![p] = "tok_send"]
            /\ UNCHANGED cr
       ELSE /\ chk' = [chk EXCEPT ![p] = [found |-> "valid", at |-> now, from |-> writer["ExpiresAt"], val |-> Unread]]
            /\ pc' = [pc EXCEPT ![p] = "bearer"]
            /\ UNCHANGED <<cr, scope>>
    /\ UNCHANGED <<m, now, procs, kind, tok, pend, sent, ret, ntok, ngen, writer, acquired, resp>>

\* GetAccessTokenWithScope up to client.Do: the token request goes out, unless
\* http.NewRequest failed: req is nil and req.Header.Add dereferences it before
\* the error is looked at
SendTokenRequest(p) ==
    /\ Running
    /\ pc[p] = "tok_send"
    /\ IF NewRequestFails(m, TokenRequest(m, scope[p]))
       THEN /\ pc' = [pc EXCEPT ![p] = "panic"]
            /\ UNCHANGED <<sent, ntok, resp>>
       ELSE /\ sent' = [sent EXCEPT ![p] = BuildRequest(m, TokenRequest(m, scope[p]))]
            /\ ntok' = [ntok EXCEPT ![p] = @ + 1]
            /\ resp' = [resp EXCEPT ![p] = NoResponse]
            /\ pc' = [pc EXCEPT ![p] = "tok_wait"]
    /\ UNCHANGED <<m, now, procs, kind, cr, scope, tok, pend, ret, ngen, writer, acquired, chk>>

\* (mutant) the error of GetAccessToken is dropped
AcquireFailedIgnored(err) == FALSE

\* doRequestWithAuthentication tests the error GetAccessToken returned
AcquireFailed(err) == err # NoErr

\* (mutant) a failed refresh is attempted again
AfterAcquireRetry(p, err) ==
    IF kind[p] = "token" THEN "done" ELSE IF AcquireFailed(err) THEN "tok_send" ELSE "bearer"

\* where GetAccessTokenWithScope returns to: its caller, or the authenticated call
AfterAcquire(p, err) ==
    IF kind[p] = "token" \/ AcquireFailed(err) THEN "done" ELSE "bearer"

\* what the caller keeps of GetAccessTokenWithScope's return values: the
\* authenticated call discards the token (_, err := m.GetAccessToken())
Returned(p, a, t) ==
    IF kind[p] = "token" THEN [at |-> a.at, err |-> a.err, now |-> t]
    ELSE [at |-> AccessTokenZero, err |-> a.err, now |-> t]

\* client.Do returns for the token request; the body is decoded and stamped
ReceiveTokenResponse(p, r) ==
    /\ Running
    /\ pc[p] = "tok_wait"
    /\ LET h == HandleResponse(m, r)
           a == AcquireResult(h.body, h.err, now)
       IN  IF h.outcome = "panic"
           THEN /\ pc' = [pc EXCEPT ![p] = "panic"]
                /\ UNCHANGED <<tok, ret, pend>>
           ELSE /\ IF a.store
                   THEN /\ pc' = [pc EXCEPT ![p] = "store"]
                        /\ tok' = [tok EXCEPT ![p] = [at |-> a.at, err |-> a.err, now |-> now]]
                        /\ pend' = [pend EXCEPT ![p] = TokenFields]
                        /\ UNCHANGED ret
                   ELSE /\ pc' = [pc EXCEPT ![p] = AfterAcquire(p, a.err)]
                        /\ tok' = [tok EXCEPT ![p] = Returned(p, a, now)]
                        /\ ret' = [ret EXCEPT ![p] = [err |-> a.err, data |-> <<>>]]
                        /\ UNCHANGED pend
    /\ UNCHANGED <<m, now, procs, kind, cr, scope, sent, ntok, ngen, writer, acquired, chk>>

\* (mutant) the scope of the stored token is never overwritten
CopyFieldsButScope(old, at, fs) ==
    [f \in TokenFields |-> IF f \in fs \ {"Scope"} THEN at[f] ELSE old[f]]

\* the stored token with the fields fs taken from at
CopyFields(old, at, fs) == [f \in TokenFields |-> IF f \in fs THEN at[f] ELSE old[f]]

\* the fields the client itself reads one at a time: ExpiresAt in hasExpired,
\* Value for the bearer
ReadFields == {"Value", "ExpiresAt"}

\* m.AccessToken = at: a plain struct copy, not synchronized.  The fields fs are
\* copied in this step and the others in a later step, so another goroutine may
\* read Value and ExpiresAt of different tokens; the fields nothing reads alone
\* go with the first step.  With a single goroutine nothing can observe the
\* copy half done and it is one step.
StoreToken(p, fs) ==
    /\ Running
    /\ pc[p] = "store"
    /\ fs \subseteq pend[p] /\ fs # {}
    /\ (pend[p] \ ReadFields) \subseteq fs
    /\ Cardinality(procs) = 1 => fs = pend[p]
    /\ m' = [m EXCEPT !.AccessToken = CopyFields(@, tok[p].at, fs)]
    /\ writer' = [f \in TokenFields |-> IF f \in fs THEN p ELSE writer[f]]
    /\ pend' = [pend EXCEPT ![p] = @ \ fs]
    /\ IF fs = pend[p]
       THEN /\ pc' = [pc EXCEPT ![p] = AfterAcquire(p, tok[p].err)]
            /\ tok' = [tok EXCEPT ![p] = Returned(p, @, @.now)]
            /\ ret' = [ret EXCEPT ![p] = [err |-> tok[p].err, data |-> <<>>]]
            /\ acquired' = IF tok[p].err = NoErr THEN tok[p].at.Value ELSE acquired
       ELSE UNCHANGED <<pc, tok, ret, acquired>>
    /\ UNCHANGED <<now, procs, kind, cr, scope, sent, ntok, ngen, chk, resp>>

\* cr.authorization = "Bearer " + m.AccessToken.Value
ResolveBearer(p) ==
    /\ Running
    /\ pc[p] = "bearer"
    /\ cr' = [cr EXCEPT ![p].authorization = Bearer(m.AccessToken.Value)]
    /\ chk' = [chk EXCEPT ![p] =
                 [found |-> @.found, at |-> @.at,
                  from |-> IF @.found = "expired" THEN p ELSE @.from,
                  val |-> writer["Value"]]]
    /\ pc' = [pc EXCEPT ![p] = "send"]
    /\ UNCHANGED <<m, now, procs, kind, scope, tok, pend, sent, ret, ntok, ngen, writer, acquired, resp>>

\* doRequest up to client.Do: the general request goes out, or the nil req of
\* a failed http.NewRequest is dereferenced
SendRequest(p) ==
    /\ Running
    /\ pc[p] = "send"
    /\ IF NewRequestFails(m, cr[p])
       THEN /\ pc' = [pc EXCEPT ![p] = "panic"]
            /\ UNCHANGED <<sent, ngen, resp>>
       ELSE /\ sent' = [sent EXCEPT ![p] = BuildRequest(m, cr[p])]
            /\ ngen' = [ngen EXCEPT ![p] = @ + 1]
            /\ resp' = [resp EXCEPT ![p] = NoResponse]
            /\ pc' = [pc EXCEPT ![p] = "wait"]
    /\ UNCHANGED <<m, now, procs, kind, cr, scope, tok, pend, ret, ntok, writer, acquired, chk>>

\* client.Do returns for the general request; the body is decoded into response
ReceiveResponse(p, r) ==
    /\ Running
    /\ pc[p] = "wait"
    /\ LET h == HandleResponse(m, r)
           u == UnmarshalResponse(h.body)
       IN  IF h.outcome = "panic"
           THEN /\ pc' = [pc EXCEPT ![p] = "panic"]
                /\ UNCHANGED ret
           ELSE /\ pc' = [pc EXCEPT ![p] = "done"]
                /\ ret' = [ret EXCEPT ![p] =
                             IF h.err # NoErr THEN [err |-> h.err, data |-> <<>>]
                             ELSE [err |-> u.err, data |-> u.data]]
    /\ UNCHANGED <<m, now, procs, kind, cr, scope, tok, pend, sent, ntok, ngen, writer, acquired, chk>>

\* the call has returned; the caller is free to call again
Return(p) ==
    /\ Running
    /\ pc[p] = "done"
    /\ pc' = [pc EXCEPT ![p] = "idle"]
    /\ kind' = [kind EXCEPT ![p] = "none"]
    /\ cr' = [cr EXCEPT ![p] = ClientRequestZero]
    /\ scope' = [scope EXCEPT ![p] = ""]
    /\ tok' = [tok EXCEPT ![p] = NoTok]
    /\ sent' = [sent EXCEPT ![p] = NoRequest]
    /\ resp' = [resp EXCEPT ![p] = NoResponse]
    /\ ret' = [ret EXCEPT ![p] = NoRet]
    /\ ntok' = [ntok EXCEPT ![p] = 0]
    /\ ngen' = [ngen EXCEPT ![p] = 0]
    /\ chk' = [chk EXCEPT ![p] = NoChk]
    /\ UNCHANGED <<m, now, procs, pend, writer, acquired>>

Next ==
    \/ Tick
    \/ \E p \in procs, sc \in Scopes : CallGetAccessToken(p, sc)
    \/ \E p \in procs, payload \in Payloads : CallWithAuthentication(p, payload)
    \/ \E p \in procs : CheckToken(p)
    \/ \E p \in procs : SendTokenRequest(p)
    \/ \E p \in procs : pc[p] = "tok_wait" /\ \E r \in ServerResponses(sent[p]) :
          ReceiveTokenResponse(p, r) /\ UNCHANGED resp
    \/ \E p \in procs : \E fs \in SUBSET pend[p] : StoreToken(p, fs)
    \/ \E p \in procs : ResolveBearer(p)
    \/ \E p \in procs : SendRequest(p)
    \/ \E p \in procs : pc[p] = "wait" /\ \E r \in ServerResponses(sent[p]) :
          ReceiveResponse(p, r) /\ UNCHANGED resp
    \/ \E p \in procs : Return(p)

Spec == Init /\ [][Next]_vars

\* the server answers 200 with a well-formed, uncompressed document
Healthy(isToken, sc) ==
    {r \in ResponsesWith(isToken, sc) :
        /\ ~r.failed /\ r.status = StatusOK /\ r.encoding = ""
        /\ r.body \in IF isToken
                      THEN {TokenDoc(v, MaxDurationMs, sc) : v \in DOMAIN ValueNames}
                      ELSE {EmptyDoc}}

HealthyTokenResponses == [sc \in DOMAIN ScopeNames |-> Healthy(TRUE, sc)]
HealthyGeneralResponses == Healthy(FALSE, 1)

HealthyResponses(req) ==
    IF req.path = "/oauth/token" THEN HealthyTokenResponses[ScopeAsked(req)]
    ELSE HealthyGeneralResponses

\* the same operations, called by several goroutines against a healthy server
NextConc ==
    \/ Tick
    \/ \E p \in procs : CallGetAccessToken(p, "ALL")
    \/ \E p \in procs : CallWithAuthentication(p, EmptyDoc)
    \/ \E p \in procs : CheckToken(p)
    \/ \E p \in procs : SendTokenRequest(p)
    \/ \E p \in procs : pc[p] = "tok_wait" /\ \E r \in HealthyResponses(sent[p]) :
          ReceiveTokenResponse(p, r) /\ UNCHANGED resp
    \/ \E p \in procs : \E fs \in SUBSET pend[p] : StoreToken(p, fs)
    \/ \E p \in procs : ResolveBearer(p)
    \/ \E p \in procs : SendRequest(p)
    \/ \E p \in procs : pc[p] = "wait" /\ \E r \in HealthyResponses(sent[p]) :
          ReceiveResponse(p, r) /\ UNCHANGED resp
    \/ \E p \in procs : Return(p)

SpecConc == InitConc /\ [][NextConc]_vars

\* the same operations within one clock instant, with every response the
\* server hands back kept in resp until the call returns
NextPipe ==
    \/ \E p \in procs : CallGetAccessToken(p, "ALL")
    \/ \E p \in procs, payload \in Payloads : CallWithAuthentication(p, payload)
    \/ \E p \in procs : CheckToken(p)
    \/ \E p \in procs : SendTokenRequest(p)
    \/ \E p \in procs : pc[p] = "tok_wait" /\ \E r \in ServerResponses(sent[p]) :
          ReceiveTokenResponse(p, r) /\ resp' = [resp EXCEPT ![p] = r]
    \/ \E p \in procs : \E fs \in SUBSET pend[p] : StoreToken(p, fs)
    \/ \E p \in procs : ResolveBearer(p)
    \/ \E p \in procs : SendRequest(p)
    \/ \E p \in procs : pc[p] = "wait" /\ \E r \in ServerResponses(sent[p]) :
          ReceiveResponse(p, r) /\ resp' = [resp EXCEPT ![p] = r]
    \/ \E p \in procs : Return(p)

SpecPipe == Init /\ [][NextPipe]_vars

\* the recorded responses, with the clock running
NextPipeClock ==
    \/ Tick
    \/ NextPipe

SpecPipeClock == Init /\ [][NextPipeClock]_vars

\* every client built by NewClientWithToken, whatever string it is given
TokenClients ==
    {NewClientWithToken("static", "https://api.test"),
     NewClientWithToken("", "https://api.test")}

InitWithToken == InitWith({1}, TokenClients, BOOLEAN)

SpecWithToken == InitWithToken /\ [][Next]_vars

\* ------------------------------------------------------- the codec alone
\* buffers of up to MaxLen bytes, among them the gzip magic bytes
CodecBytes == {0, GzipID1, GzipID2, ByteMod - 1}
RECURSIVE Buffers(_)
Buffers(n) ==
    IF n = 0 THEN {<<>>}
    ELSE Buffers(n - 1) \cup {Append(b, x) : b \in {c \in Buffers(n - 1) : Len(c) = n - 1}, x \in CodecBytes}

CodecInputs == Buffers(MaxLen)

\* doGzip(data): the compressed buffer is kept as a request body
Compress(p, data) ==
    /\ Running
    /\ pc[p] = "idle"
    /\ kind' = [kind EXCEPT ![p] = "codec"]
    /\ cr' = [cr EXCEPT ![p].payload = data]
    /\ sent' = [sent EXCEPT ![p] = [NoRequest EXCEPT !.body = doGzip(data)]]
    /\ pc' = [pc EXCEPT ![p] = "gzipped"]
    /\ UNCHANGED <<m, now, procs, scope, tok, pend, resp, ret, ntok, ngen, writer, acquired, chk>>

\* doGunzip of that buffer: (data, err), or the panic of the deferred Close
Decompress(p) ==
    /\ Running
    /\ pc[p] = "gzipped"
    /\ LET z == doGunzip(sent[p].body)
       IN  IF z.outcome = "panic"
           THEN /\ pc' = [pc EXCEPT ![p] = "panic"]
                /\ UNCHANGED ret
           ELSE /\ pc' = [pc EXCEPT ![p] = "done"]
                /\ ret' = [ret EXCEPT ![p] =
                             [err |-> IF z.outcome = "ok" THEN NoErr ELSE Errorf("gunzip", <<>>),
                              data |-> z.out]]
    /\ UNCHANGED <<m, now, procs, kind, cr, scope, tok, pend, sent, resp, ntok, ngen, writer, acquired, chk>>

NextCodec ==
    \/ \E p \in procs, data \in CodecInputs : Compress(p, data)
    \/ \E p \in procs : Decompress(p)
    \/ \E p \in procs : Return(p)

SpecCodec == Init /\ [][NextCodec]_vars

\* ================================================================ claims
IsTokenRequest(q) == q.path = "/oauth/token"
IsGeneralRequest(q) == q # NoRequest /\ q.path # "/oauth/token"
IsGzipOf(body, payload) ==
    /\ body # payload
    /\ doGunzip(body) = [outcome |-> "ok", out |-> payload]

\* C1: a token-endpoint request on the wire never carries Content-Encoding: gzip
\* and never a gzip-encoded body, whatever CompressionConfig is.
C1_TokenRequestNeverGzip ==
    \A p \in procs :
        IsTokenRequest(sent[p]) =>
            /\ sent[p].ContentEncoding # "gzip"
            /\ sent[p].body = GrantPayload(scope[p])

\* C2: a general request carries the gzip encoding of the caller's payload and
\* Content-Encoding: gzip when Compression.Request is set, and the payload
\* unchanged with no Content-Encoding header when it is not.
C2_GeneralRequestCompression ==
    \A p \in procs :
        IsGeneralRequest(sent[p]) =>
            IF m.Compression.Request
            THEN /\ IsGzipOf(sent[p].body, cr[p].payload)
                 /\ sent[p].ContentEncoding = "gzip"
            ELSE /\ sent[p].body = cr[p].payload
                 /\ sent[p].ContentEncoding = ""

C2_Witness ==
    \E p \in procs :
        /\ pc[p] = "wait"
        /\ IsGeneralRequest(sent[p])
        /\ m.Compression.Request
        /\ cr[p].payload = EmptyDoc
        /\ sent[p].body = <<GzipID1, GzipID2, LBrace, RBrace, 248, 2>>

\* C3: the expiry check of an authenticated call finds the token expired
\* exactly when no token was ever stored or now >= ExpiresAt; a check at the
\* instant now = ExpiresAt reports it expired.
C3_ExpiredIffNotBefore ==
    [][\A p \in procs :
          (pc[p] = "check" /\ m.ClientToken = "" /\ pc'[p] # "check") =>
              ((pc'[p] = "tok_send") <=>
                  (m.AccessToken = AccessTokenZero \/ now >= m.AccessToken.ExpiresAt))]_vars

\* C4 (as claimed): right after a successful GetAccessToken*, before the clock
\* moves, the stored token has not expired, whatever expires_in was.
C4_FreshAfterAcquire ==
    \A p \in procs :
        (pc[p] = "done" /\ kind[p] = "token" /\ ret[p].err = NoErr /\ now = tok[p].now) =>
            ~hasExpired(m.AccessToken, now)

\* C4 (amended): after a successful GetAccessToken* that was sent
\* expires_in > 0, the stored token is the acquired one, it is not expired at
\* any instant before the acquisition instant + expires_in (so not right after
\* the call), and it is expired once the clock has passed that instant.
C4_FreshUntilLifetimePassed ==
    \A p \in procs :
        (pc[p] = "done" /\ kind[p] = "token" /\ ret[p].err = NoErr
            /\ tok[p].at.ExpiresIn > 0) =>
            /\ m.AccessToken.Value = tok[p].at.Value
            /\ now < tok[p].now + tok[p].at.ExpiresIn => ~hasExpired(m.AccessToken, now)
            /\ now > tok[p].now + tok[p].at.ExpiresIn => hasExpired(m.AccessToken, now)

C4_Witness ==
    \E p \in procs :
        /\ pc[p] = "done" /\ kind[p] = "token" /\ ret[p].err = NoErr
        /\ tok[p].at.ExpiresIn = 1
        /\ tok[p].now = 0
        /\ now = 2
        /\ hasExpired(m.AccessToken, now)

\* C5: a step of GetAccessToken* that does not complete the call with a nil
\* error leaves the stored token as it was, so a call that returns an error
\* has not changed it.
C5_FailureKeepsToken ==
    [][\A p \in procs :
          (kind[p] = "token" /\ pc[p] # "done" /\ pc'[p] # "panic"
              /\ (pc'[p] = "done" => ret'[p].err # NoErr)) =>
              m'.AccessToken = m.AccessToken]_vars

\* C6: an authenticated call of a static-token client dispatches no token
\* request, and what it dispatches carries Authorization: Bearer <ClientToken>.
C6_StaticNeverAcquires ==
    \A p \in procs :
        (m.ClientToken # "" /\ kind[p] = "auth") =>
            /\ ntok[p] = 0
            /\ ~IsTokenRequest(sent[p])
            /\ pc[p] \notin {"tok_send", "tok_wait", "store", "bearer"}
            /\ sent[p] # NoRequest => sent[p].Authorization = Bearer(m.ClientToken)

C6_Witness ==
    \E p \in procs :
        /\ m.ClientToken = "static" /\ kind[p] = "auth" /\ pc[p] = "wait"
        /\ m.AccessToken.Value = "tok1"
        /\ hasExpired(m.AccessToken, now)
        /\ sent[p].Authorization = Bearer("static")

\* C7: when the expiry check of a dynamic client's authenticated call found
\* the token expired or absent and the acquisition returned an error, the call
\* returns that error and has dispatched no general request.
C7_AcquireErrorPropagates ==
    \A p \in procs :
        (kind[p] = "auth" /\ chk[p].found = "expired" /\ tok[p].err # NoErr
            /\ pc[p] \notin {"tok_send", "tok_wait", "store", "panic"}) =>
            /\ pc[p] = "done"
            /\ ret[p].err = tok[p].err
            /\ ngen[p] = 0
            /\ IsTokenRequest(sent[p])

C7_Witness ==
    \E p \in procs :
        /\ kind[p] = "auth" /\ chk[p].found = "expired" /\ pc[p] = "done"
        /\ tok[p].err = Errorf("status", ErrorDoc)
        /\ ret[p].err = Errorf("status", ErrorDoc)
        /\ ngen[p] = 0

\* C8: two token-endpoint refreshes triggered by authenticated calls are never
\* in flight at the same time.
C8_OneRefreshInFlight ==
    \A p, q \in procs :
        (p # q /\ kind[p] = "auth" /\ kind[q] = "auth") =>
            ~(pc[p] = "tok_wait" /\ pc[q] = "tok_wait")

\* C9: the Value an authenticated call sends as bearer and the ExpiresAt its
\* expiry check relied on (that of the stored token, or of the token the call
\* itself just acquired) were written by one and the same acquisition.
C9_BearerFromCheckedToken ==
    \A p \in procs :
        (kind[p] = "auth" /\ chk[p].val # Unread) => chk[p].val = chk[p].from

\* C10: a response with Content-Encoding: gzip is gunzipped before the status
\* is classified and before JSON is decoded, whatever Compression.Response is;
\* with any other Content-Encoding, or none, the body is used as it came.
Decoded(r) == IF r.encoding = "gzip" THEN doGunzip(r.body) ELSE [outcome |-> "ok", out |-> r.body]

C10_GunzipByResponseHeader ==
    \A p \in procs :
        (resp[p] # NoResponse /\ ~resp[p].failed /\ pc[p] # "panic") =>
            LET z == Decoded(resp[p])
                u == UnmarshalToken(z.out)
                e == IF IsTokenRequest(sent[p]) THEN tok[p].err ELSE ret[p].err
            IN  /\ z.outcome # "panic"
                /\ z.outcome = "err" => e = Errorf("gunzip", <<>>)
                /\ (z.outcome = "ok" /\ ~IsSuccess(resp[p].status)) =>
                       e = Errorf("status", z.out)
                /\ (z.outcome = "ok" /\ IsSuccess(resp[p].status)) =>
                       IF IsGeneralRequest(sent[p])
                       THEN ret[p] = UnmarshalResponse(z.out)
                       ELSE /\ e \in {u.err, Errorf("duration", <<>>)}
                            /\ (u.err = NoErr /\ (pc[p] = "store" \/ kind[p] = "token")) =>
                                   /\ tok[p].at.Value = u.at.Value
                                   /\ tok[p].at.ExpiresIn = u.at.ExpiresIn

C10_Witness ==
    \E p \in procs :
        /\ pc[p] = "done" /\ kind[p] = "auth"
        /\ ~m.Compression.Response
        /\ resp[p].encoding = "gzip"
        /\ resp[p].body = doGzip(EmptyDoc)
        /\ resp[p].status = 299
        /\ ret[p] = [err |-> NoErr, data |-> EmptyDoc]

\* the error doRequest returned to p for the response recorded in resp[p]
RequestErr(p) == IF IsTokenRequest(sent[p]) THEN tok[p].err ELSE ret[p].err
FromDoRequest(e) == e.kind \in {"send", "gunzip", "status"}

\* C11: doRequest returns the body with a nil error exactly when the status s
\* of the response satisfies 200 <= s <= 299: a response whose body could be
\* read is a failure at 199, 300 and 401 and a success at 200 and 299, and the
\* body of a success is what the caller's JSON decoding is given.
C11_SuccessIffStatus2xx ==
    \A p \in procs :
        (resp[p] # NoResponse /\ ~resp[p].failed /\ pc[p] # "panic"
            /\ Decoded(resp[p]).outcome = "ok") =>
            /\ ~FromDoRequest(RequestErr(p)) <=> (200 <= resp[p].status /\ resp[p].status <= 299)
            /\ (resp[p].status \in {200, 299} /\ IsGeneralRequest(sent[p])) =>
                   ret[p] = UnmarshalResponse(Decoded(resp[p]).out)
            /\ resp[p].status \in {199, 300, 401} => RequestErr(p).kind = "status"

C11_Witness ==
    \E p \in procs :
        /\ pc[p] = "done" /\ kind[p] = "auth"
        /\ resp[p].status = 300 /\ resp[p].encoding = ""
        /\ resp[p].body = ErrorDoc
        /\ ret[p].err.kind = "status"

\* C12: for every response whose status is outside 2xx the call returns an
\* error, never a decoded result, and when the body can be read (gunzipped
\* first if the response is labelled gzip) the error text is that body.
C12_NonSuccessIsErrorWithBody ==
    \A p \in procs :
        (resp[p] # NoResponse /\ ~resp[p].failed /\ ~IsSuccess(resp[p].status)) =>
            /\ pc[p] # "panic"
            /\ RequestErr(p) # NoErr
            /\ IsGeneralRequest(sent[p]) => ret[p].data = <<>>
            /\ Decoded(resp[p]).outcome = "ok" =>
                   RequestErr(p) = Errorf("status", Decoded(resp[p]).out)

\* C13: a response labelled Content-Encoding: gzip whose body is not a valid
\* gzip stream (bad or truncated header, or bad trailer) makes doRequest return
\* a non-nil error; the call does not crash.
C13_InvalidGzipReturnsError ==
    \A p \in procs :
        (resp[p] # NoResponse /\ ~resp[p].failed /\ resp[p].encoding = "gzip"
            /\ doGunzip(resp[p].body).outcome # "ok") =>
            /\ pc[p] # "panic"
            /\ RequestErr(p).kind = "gunzip"

\* C14: for every payload P, the empty one included, doGunzip(doGzip(P))
\* returns exactly P and a nil error.
C14_RoundTrip ==
    \A p \in procs :
        (kind[p] = "codec" /\ pc[p] \notin {"idle", "gzipped"}) =>
            /\ pc[p] = "done"
            /\ ret[p] = [err |-> NoErr, data |-> cr[p].payload]

C14_Witness ==
    \E p \in procs :
        /\ kind[p] = "codec" /\ pc[p] = "done"
        /\ cr[p].payload = <<>>
        /\ sent[p].body = <<GzipID1, GzipID2, 0, 0>>
        /\ ret[p] = [err |-> NoErr, data |-> <<>>]

\* C15: a client built by NewClientWithToken(token, host), for every token
\* string including the empty one, stays in static mode: its authenticated
\* calls never go to the token endpoint and send Bearer <token>, and no call
\* changes its credentials.
C15_TokenClientStaysStatic ==
    \A p \in procs :
        /\ m.ClientId = "" /\ m.ClientSecret = "" /\ m.ClientToken \in {"static", ""}
        /\ kind[p] = "auth" =>
               /\ ntok[p] = 0
               /\ pc[p] \notin {"tok_send", "tok_wait", "store", "bearer"}
               /\ sent[p] # NoRequest =>
                      /\ IsGeneralRequest(sent[p])
                      /\ sent[p].Authorization = Bearer(m.ClientToken)

\* C16: an authenticated call dispatches at most one token request and at
\* most one general request, the token request first; after a failed token
\* request it returns that error with no general request sent, and after the
\* general request it only waits and returns (no second attempt, no refresh),
\* returning the error of that request when it failed.
C16_NoRetries ==
    \A p \in procs :
        kind[p] = "auth" =>
            /\ ntok[p] <= 1 /\ ngen[p] <= 1
            /\ pc[p] \in {"check", "tok_send", "tok_wait", "store", "bearer", "send"} => ngen[p] = 0
            /\ ngen[p] = 1 => /\ pc[p] \in {"wait", "done", "panic"}
                              /\ IsGeneralRequest(sent[p])
            /\ (ntok[p] = 1 /\ tok[p].err # NoErr /\ pc[p] \notin {"tok_wait", "store", "panic"}) =>
                   /\ pc[p] = "done" /\ ngen[p] = 0 /\ ret[p].err = tok[p].err
            /\ (pc[p] = "done" /\ ngen[p] = 1) => tok[p].err = NoErr

C16_Witness ==
    \E p \in procs :
        /\ kind[p] = "auth" /\ pc[p] = "done"
        /\ ntok[p] = 1 /\ ngen[p] = 1
        /\ ret[p].err = Errorf("send", <<>>)

\* C17: when GetAccessToken* has returned a nil error, the stored token equals
\* the returned token in every field, Value, ExpiresIn and Scope are those of
\* the response document (the zero value for a member it lacks), and ExpiresAt
\* is the acquisition instant plus expires_in milliseconds; nothing of the
\* token stored before remains.
C17_StoredTokenReplacedWholesale ==
    \A p \in procs :
        (kind[p] = "token" /\ pc[p] = "done" /\ ret[p].err = NoErr) =>
            LET u == UnmarshalToken(Decoded(resp[p]).out)
            IN  /\ m.AccessToken = tok[p].at
                /\ u.err = NoErr
                /\ m.AccessToken.Value = u.at.Value
                /\ m.AccessToken.ExpiresIn = u.at.ExpiresIn
                /\ m.AccessToken.Scope = u.at.Scope
                /\ m.AccessToken.ExpiresAt = tok[p].now + u.at.ExpiresIn
                /\ tok[p].now <= now

\* a second acquisition, answered {} one instant after the first stored a
\* full token: every field of the first is gone
C17_Witness ==
    \E p \in procs :
        /\ kind[p] = "token" /\ pc[p] = "done" /\ ret[p].err = NoErr
        /\ resp[p].body = EmptyDoc /\ resp[p].encoding = ""
        /\ tok[p].now = 1
        /\ writer["Value"] = p
        /\ m.AccessToken = [Value |-> "", ExpiresIn |-> 0, ExpiresAt |-> 1, Scope |-> ""]

\* C18 (as claimed): when a dynamic client's authenticated call resolves its
\* bearer, the bearer is the Value of the stored token and that token has not
\* expired at that moment.
C18_BearerValidWhenResolved ==
    [][\A p \in procs :
          (m.ClientToken = "" /\ pc[p] = "bearer" /\ pc'[p] = "send") =>
              /\ cr'[p].authorization = [scheme |-> "Bearer", cred |-> <<m.AccessToken.Value>>]
              /\ ~hasExpired(m.AccessToken, now)]_vars

\* C18 (amended): in sequential execution of a dynamic client, the bearer of
\* the general request is the Value of the stored token; that token either
\* passed this call's expiry check (not expired at the instant of the check),
\* or was stored by this call's single refresh at an instant between the check
\* and now, and is not expired at that instant when expires_in >= 0.
C18_BearerOfCheckedOrRefreshedToken ==
    \A p \in procs :
        (m.ClientToken = "" /\ kind[p] = "auth" /\ pc[p] \in {"send", "wait", "done"}
            /\ chk[p].val # Unread) =>
            /\ cr[p].authorization = [scheme |-> "Bearer", cred |-> <<m.AccessToken.Value>>]
            /\ ngen[p] = 1 => sent[p].Authorization = cr[p].authorization
            /\ chk[p].found = "valid" =>
                   /\ ntok[p] = 0
                   /\ ~hasExpired(m.AccessToken, chk[p].at)
            /\ chk[p].found = "expired" =>
                   /\ ntok[p] = 1
                   /\ chk[p].at <= tok[p].now /\ tok[p].now <= now
                   /\ m.AccessToken.ExpiresAt = tok[p].now + m.AccessToken.ExpiresIn
                   /\ m.AccessToken.ExpiresIn >= 0 => ~hasExpired(m.AccessToken, tok[p].now)

\* a refresh at instant 1 stored a token of lifetime 0, sent as bearer at 2
C18_Witness ==
    \E p \in procs :
        /\ m.ClientToken = "" /\ kind[p] = "auth" /\ pc[p] = "wait"
        /\ chk[p].found = "expired" /\ chk[p].at = 0
        /\ tok[p].now = 1 /\ now = 2
        /\ m.AccessToken.ExpiresIn = 0 /\ m.AccessToken.Value = "tok2"
        /\ sent[p].Authorization = [scheme |-> "Bearer", cred |-> <<"tok2">>]

\* C19: when http.NewRequest cannot build the request (invalid method, or a
\* host + path that does not parse as a URL), the call returns a non-nil
\* error without crashing and nothing is dispatched.
C19_BuildFailureReturnsError ==
    \A p \in procs :
        (m.Host \in UnparsableHosts /\ kind[p] \in {"token", "auth"}
            /\ pc[p] \notin {"check", "tok_send"}) =>
            /\ pc[p] = "done"
            /\ ret[p].err # NoErr
            /\ ntok[p] = 0 /\ ngen[p] = 0
            /\ sent[p] = NoRequest

\* C20: an explicit GetAccessToken* call that has returned dispatched exactly
\* one token request, whatever the stored token was, and on success the
\* stored token is the returned one; so the bearer of every authenticated call
\* of a dynamic client is the Value of the latest acquisition that succeeded.
C20_BearerOfLatestAcquisition ==
    \A p \in procs :
        /\ (kind[p] = "token" /\ pc[p] = "done") =>
               /\ ntok[p] = 1
               /\ ret[p].err = NoErr => (m.AccessToken = tok[p].at /\ acquired = tok[p].at.Value)
        /\ (m.ClientToken = "" /\ kind[p] = "auth" /\ chk[p].val # Unread) =>
               cr[p].authorization = [scheme |-> "Bearer", cred |-> <<acquired>>]

====
